---------------------------- MODULE Spec2Model ----------------------------
(* A model of codify (src/main.py): the git diff resolution of GitHandler,   *)
(* CodeReviewer.review_branch and its response extractor, the persisted      *)
(* configuration file, and the click commands review / init / config.        *)
(*                                                                           *)
(* Python text is a sequence of one-character strings where the code looks   *)
(* at characters (the extractor), and a sequence of fragments where the code *)
(* only concatenates (messages).                                             *)
EXTENDS Integers, Sequences, FiniteSets, TLC

VARIABLES
  heads,     \* repo.heads: the names of the local branches
  current,   \* repo.active_branch.name
  tree,      \* paths of repo.tree().traverse()
  changed,   \* paths that differ between a merge base and another ref's tip
  cfgFile,   \* <repo-root>/.codify.config
  cmd,       \* the last invocation: its arguments and everything it did
  raw,       \* the text handed to _format_review_content
  shown,     \* what _format_review_content returned for it
  conf,      \* a Config instance built in memory
  config_dict,  \* what config.to_dict() returned
  new_config    \* what Config.from_dict(config_dict) returned

inMemory == <<conf, config_dict, new_config>>

vars == <<heads, current, tree, changed, cfgFile, cmd, raw, shown, inMemory>>

-----------------------------------------------------------------------------
(* Bounds and input sets *)

MaxFiles == 2          \* longest --files list tried
MaxRawLen == 3         \* longest free-form raw text tried, in characters

NONE == "<None>"       \* Python's None where a str is optional

BranchNames == {"main", "master", "feat"}
Tags == {"v1"}         \* a ref git resolves that is no local branch
UserNames == BranchNames \cup Tags
Paths == {"a.py", "b.py"}
PathOrder == <<"a.py", "b.py">>

RECURSIVE SeqsUpTo(_, _)
SeqsUpTo(S, n) ==
  IF n = 0 THEN {<<>>}
  ELSE LET shorter == SeqsUpTo(S, n - 1)
       IN  shorter \cup {Append(s, x) : s \in shorter, x \in S}

FileLists == SeqsUpTo(Paths, MaxFiles)

Range(s) == {s[i] : i \in 1..Len(s)}

-----------------------------------------------------------------------------
(* Constants of main.py *)

DEFAULT_MODEL == "gpt-4o"
DEFAULT_TEMPERATURE == "0.0"
CONFIG_FILENAME == ".codify.config"
DEFAULT_BASE_BRANCHES == <<"main", "master">>

-----------------------------------------------------------------------------
(* Exceptions: the class decides which except clause takes it; kind is the   *)
(* raise site, in the words of the error taxonomy; msg is str(e).            *)

NoExc == [cls |-> "none", kind |-> "none", msg |-> <<>>]

ClickException(kind, msg) == [cls |-> "ClickException", kind |-> kind, msg |-> msg]

GitCommandError(rev) ==
  [cls |-> "GitCommandError", kind |-> "GitOperationError",
   msg |-> <<"Cmd('git') failed due to: exit code(128): bad revision '", rev, "'">>]

OtherError(kind, msg) == [cls |-> "Exception", kind |-> kind, msg |-> msg]

Raised(r) == r.exc.cls # "none"

RECURSIVE Join(_, _)
Join(sep, names) ==
  IF names = <<>> THEN <<>>
  ELSE IF Len(names) = 1 THEN <<names[1]>>
  ELSE <<names[1], sep>> \o Join(sep, Tail(names))

-----------------------------------------------------------------------------
(* The version-control backend, as GitPython reaches it *)

\* git resolves a revision when it is a local branch or another ref
Resolvable(hs, rev) == rev \in hs \cup Tags

\* `git diff base...target`: the paths that differ between the merge base of
\* the two and target, or git's failure on a revision it cannot resolve
GitDiffPaths(hs, chg, base, target) ==
  IF ~Resolvable(hs, base) THEN [exc |-> GitCommandError(base), val |-> {}]
  ELSE IF ~Resolvable(hs, target) THEN [exc |-> GitCommandError(target), val |-> {}]
  ELSE [exc |-> NoExc, val |-> IF base = target THEN {} ELSE chg]

\* the output text of a diff over a set of paths, one entry per path, in
\* git's order; the empty text when no path differs
DiffText(paths) == SelectSeq(PathOrder, LAMBDA p : p \in paths)

-----------------------------------------------------------------------------
(* GitHandler *)

RECURSIVE FirstHead(_, _)
FirstHead(hs, names) ==
  IF names = <<>> THEN NONE
  ELSE IF names[1] \in hs THEN names[1]
  ELSE FirstHead(hs, Tail(names))

GetDefaultBaseBranch(hs) ==
  LET found == FirstHead(hs, DEFAULT_BASE_BRANCHES)
  IN  IF found # NONE
      THEN [exc |-> NoExc, val |-> found]
      ELSE [exc |-> ClickException("NoBaseBranchFound",
                      <<"No default base branch found. Expected one of: ">>
                      \o Join(", ", DEFAULT_BASE_BRANCHES)),
            val |-> NONE]

RECURSIVE FirstMissing(_, _)
FirstMissing(files, repoFiles) ==
  IF files = <<>> THEN NONE
  ELSE IF files[1] \notin repoFiles THEN files[1]
  ELSE FirstMissing(Tail(files), repoFiles)

\* `if files:` is true of a non-empty list only; None and [] are both <<>>
Truthy(files) == files # <<>>

\* line 76: the comparison that stops a review of a branch against itself
SameBranchNever(branch_name, base_branch) == FALSE
SameBranch(branch_name, base_branch) == branch_name = base_branch

\* line 103: `if not diff`
EmptyDiffNever(diff) == FALSE
EmptyDiff(diff) == diff = <<>>

\* the try body of get_branch_diff (lines 73-114): what it returns or raises,
\* and how many times it ran repo.git.diff
BranchDiffBody(hs, tr, chg, branch_name, base_arg, files) ==
  LET dflt == IF base_arg = NONE THEN GetDefaultBaseBranch(hs)
              ELSE [exc |-> NoExc, val |-> base_arg]
      base_branch == dflt.val
      missing == IF Truthy(files) THEN FirstMissing(files, tr) ELSE NONE
      scope == IF Truthy(files) THEN Range(files) ELSE Paths
      got == GitDiffPaths(hs, chg, base_branch, branch_name)
      diff == DiffText(got.val \cap scope)
  IN  IF Raised(dflt) THEN [exc |-> dflt.exc, val |-> <<>>, diffs |-> 0]
      ELSE IF SameBranch(branch_name, base_branch)
      THEN [exc |-> ClickException("SelfComparison",
                      <<"Cannot compare ", branch_name, " with itself. ",
                        "Please specify a different branch to review.">>),
            val |-> <<>>, diffs |-> 0]
      ELSE IF branch_name \notin hs
      THEN [exc |-> ClickException("BranchNotFound",
                      <<"Branch '", branch_name, "' not found">>),
            val |-> <<>>, diffs |-> 0]
      ELSE IF base_branch \notin hs
      THEN [exc |-> ClickException("BranchNotFound",
                      <<"Base branch '", base_branch, "' not found">>),
            val |-> <<>>, diffs |-> 0]
      ELSE IF missing # NONE
      THEN [exc |-> ClickException("FileNotFound",
                      <<"File not found in repository: ", missing>>),
            val |-> <<>>, diffs |-> 0]
      ELSE IF Raised(got) THEN [exc |-> got.exc, val |-> <<>>, diffs |-> 1]
      ELSE IF EmptyDiff(diff)
      THEN [exc |-> ClickException("NoChangesFound",
                      IF Truthy(files)
                      THEN <<"No changes found between ", branch_name, " and ",
                             base_branch, " for the specified files: ">>
                           \o Join(", ", files)
                      ELSE <<"No changes found between ", branch_name, " and ",
                             base_branch>>),
            val |-> <<>>, diffs |-> 1]
      ELSE [exc |-> NoExc, val |-> diff, diffs |-> 1]

\* the two except clauses of get_branch_diff (lines 115-118); the second one
\* also takes the ClickExceptions the body itself raised
BranchDiffHandler(e) ==
  IF e.cls = "none" THEN e
  ELSE IF e.cls = "GitCommandError"
  THEN ClickException("GitOperationError", <<"Git error: ">> \o e.msg)
  ELSE ClickException(e.kind, <<"Error getting diff: ">> \o e.msg)

Handled(body, handler(_)) == [body EXCEPT !.exc = handler(body.exc)]

GetBranchDiff(hs, tr, chg, branch_name, base_arg, files) ==
  Handled(BranchDiffBody(hs, tr, chg, branch_name, base_arg, files),
          BranchDiffHandler)

GetChangedFiles(hs, chg, branch_name, base_arg) ==
  LET dflt == IF base_arg = NONE THEN GetDefaultBaseBranch(hs)
              ELSE [exc |-> NoExc, val |-> base_arg]
      got == GitDiffPaths(hs, chg, dflt.val, branch_name)
  IN  IF Raised(dflt) THEN [exc |-> dflt.exc, val |-> <<>>, diffs |-> 0]
      ELSE IF Raised(got)
      THEN [exc |-> ClickException("GitOperationError",
                                   <<"Git error: ">> \o got.exc.msg),
            val |-> <<>>, diffs |-> 1]
      ELSE [exc |-> NoExc, val |-> DiffText(got.val), diffs |-> 1]

-----------------------------------------------------------------------------
(* Characters, and the parts of Python's re and str that the extractor uses *)

NL == "\n"
QUOTE == "\""
BSL == "\\"
TICK == "<backtick>"   \* SANY reads no backtick inside a string
EOT == "<eot>"         \* what Ch reads beyond either end of a text

WS == {" ", NL}        \* the characters \s and str.strip() take
Digits == {"1", "5"}
Letters == {"j", "s", "o", "n", "r", "e", "p", "a", "x"}
Chars == WS \cup Digits \cup Letters \cup {TICK, "{", "}", QUOTE, BSL, ":", ","}

Fence == <<TICK, TICK, TICK>>
JsonTag == <<"j", "s", "o", "n">>
ResponseKey == <<"r", "e", "s", "p", "o", "n", "s", "e">>

Ch(s, i) == IF i >= 1 /\ i <= Len(s) THEN s[i] ELSE EOT

HasAt(s, i, lit) ==
  /\ i >= 1
  /\ i + Len(lit) - 1 <= Len(s)
  /\ \A k \in 1..Len(lit) : s[i + k - 1] = lit[k]

\* the position after a greedy \s* that starts at i
RECURSIVE SkipWs(_, _)
SkipWs(s, i) == IF Ch(s, i) \in WS THEN SkipWs(s, i + 1) ELSE i

\* the position before a greedy \s* that ends at i, scanning backwards
RECURSIVE SkipWsBack(_, _)
SkipWsBack(s, i) == IF Ch(s, i) \in WS THEN SkipWsBack(s, i - 1) ELSE i

\* str.strip()
Strip(s) == SubSeq(s, SkipWs(s, 1), SkipWsBack(s, Len(s)))

Min(S) == CHOOSE x \in S : \A y \in S : x <= y
Max(S) == CHOOSE x \in S : \A y \in S : x >= y

\* ```(?:json)?\s* matched at i: the position after it, 0 without a fence
AfterFenceTag(s, i) ==
  IF ~HasAt(s, i, Fence) THEN 0
  ELSE IF HasAt(s, i + 3, JsonTag) THEN SkipWs(s, i + 7)
  ELSE SkipWs(s, i + 3)

\* ^\s*```(?:json)?\s*\{ with re.MULTILINE, matched at i: 0 if it does not
\* match there, else the index of the opening brace
StartMatchAt(s, i) ==
  LET b == AfterFenceTag(s, SkipWs(s, i))
  IN  IF (i = 1 \/ Ch(s, i - 1) = NL) /\ b # 0 /\ Ch(s, b) = "{" THEN b ELSE 0

\* re.search(start_pattern, content, re.MULTILINE).start(), 0 for no match
StartSearch(s) ==
  LET at == {i \in 1..Len(s) : StartMatchAt(s, i) # 0}
  IN  IF at = {} THEN 0 ELSE Min(at)

\* \}\s*```\s*$ with re.MULTILINE, matched at i: 0 if it does not match there,
\* else the index of the last character matched. After the fence the greedy
\* \s* gives back characters until $ holds: at the end of the text, or just
\* before a newline
EndMatchAt(s, i) ==
  LET f == SkipWs(s, i + 1)
      k == f + 3
      r == SkipWs(s, k)
      nls == {m \in k..(r - 1) : s[m] = NL}
  IN  IF Ch(s, i) # "}" \/ ~HasAt(s, f, Fence) THEN 0
      ELSE IF r > Len(s) THEN Len(s)
      ELSE IF nls # {} THEN Max(nls) - 1
      ELSE 0

\* re.search(end_pattern, content, re.MULTILINE).end(), 0 for no match
EndSearch(s) ==
  LET at == {i \in 1..Len(s) : EndMatchAt(s, i) # 0}
  IN  IF at = {} THEN 0 ELSE EndMatchAt(s, Min(at))

\* re.sub(r'^\s*```(?:json)?\s*', '', t)
StripFencePrefix(t) ==
  LET b == AfterFenceTag(t, SkipWs(t, 1))
  IN  IF b = 0 THEN t ELSE SubSeq(t, b, Len(t))

\* \s*```\s*$ (no MULTILINE) matches at i
FenceSuffixAt(t, i) ==
  LET f == SkipWs(t, i)
  IN  HasAt(t, f, Fence) /\ SkipWs(t, f + 3) > Len(t)

\* re.sub(r'\s*```\s*$', '', t)
StripFenceSuffix(t) ==
  LET at == {i \in 1..Len(t) : FenceSuffixAt(t, i)}
  IN  IF at = {} THEN t ELSE SubSeq(t, 1, Min(at) - 1)

-----------------------------------------------------------------------------
(* json.loads, on texts over Chars: objects, strings and numbers. The other  *)
(* JSON values (arrays, true, false, null) need characters Chars lacks, so   *)
(* on these texts json.loads rejects whatever this grammar rejects.          *)

CR == "<cr>"
Escapable == {QUOTE, BSL, "n", "r"}
Unescape(c) == IF c = "n" THEN NL ELSE IF c = "r" THEN CR ELSE c

\* A Python value: t is its type (str, num, dict), v its text
PyStr(v) == [t |-> "str", v |-> v]
PyNone == [t |-> "none", v |-> <<>>]

ParseFail == [ok |-> FALSE, t |-> "none", v |-> <<>>, pairs |-> <<>>, next |-> 0]

\* the characters of a string literal from i, the position after its opening
\* quote; a raw control character ends the parse (strict mode)
RECURSIVE ScanString(_, _, _)
ScanString(s, i, acc) ==
  LET c == Ch(s, i)
  IN  IF c = EOT \/ c = NL THEN ParseFail
      ELSE IF c = QUOTE
      THEN [ok |-> TRUE, t |-> "str", v |-> acc, pairs |-> <<>>, next |-> i + 1]
      ELSE IF c = BSL
      THEN IF Ch(s, i + 1) \in Escapable
           THEN ScanString(s, i + 2, Append(acc, Unescape(Ch(s, i + 1))))
           ELSE ParseFail
      ELSE ScanString(s, i + 1, Append(acc, c))

RECURSIVE SkipDigits(_, _)
SkipDigits(s, i) == IF Ch(s, i) \in Digits THEN SkipDigits(s, i + 1) ELSE i

\* digits, then an exponent when an e is followed by a digit
ScanNumber(s, i) ==
  LET j == SkipDigits(s, i)
      k == IF Ch(s, j) = "e" /\ Ch(s, j + 1) \in Digits
           THEN SkipDigits(s, j + 1) ELSE j
  IN  [ok |-> TRUE, t |-> "num", v |-> SubSeq(s, i, k - 1), pairs |-> <<>>,
       next |-> k]

RECURSIVE ParseValue(_, _)
RECURSIVE ParseMembers(_, _, _, _)

\* the members of an object from i, where a key must start; open is the
\* index of the object's brace
ParseMembers(s, open, i, acc) ==
  LET key == IF Ch(s, i) = QUOTE THEN ScanString(s, i + 1, <<>>) ELSE ParseFail
      colon == SkipWs(s, key.next)
      val == ParseValue(s, SkipWs(s, colon + 1))
      after == SkipWs(s, val.next)
      pairs == Append(acc, [k |-> key.v, t |-> val.t, v |-> val.v])
  IN  IF ~key.ok \/ Ch(s, colon) # ":" THEN ParseFail
      ELSE IF ~val.ok THEN ParseFail
      ELSE IF Ch(s, after) = "}"
      THEN [ok |-> TRUE, t |-> "dict", v |-> SubSeq(s, open, after),
            pairs |-> pairs, next |-> after + 1]
      ELSE IF Ch(s, after) = ","
      THEN ParseMembers(s, open, SkipWs(s, after + 1), pairs)
      ELSE ParseFail

ParseValue(s, i) ==
  LET c == Ch(s, i)
      first == SkipWs(s, i + 1)
  IN  IF c = QUOTE THEN ScanString(s, i + 1, <<>>)
      ELSE IF c \in Digits THEN ScanNumber(s, i)
      ELSE IF c = "{"
      THEN IF Ch(s, first) = "}"
           THEN [ok |-> TRUE, t |-> "dict", v |-> SubSeq(s, i, first),
                 pairs |-> <<>>, next |-> first + 1]
           ELSE ParseMembers(s, i, first, <<>>)
      ELSE ParseFail

\* json.loads(t): one value between optional whitespace, nothing after it
Loads(t) ==
  LET val == ParseValue(t, SkipWs(t, 1))
  IN  IF val.ok /\ SkipWs(t, val.next) > Len(t) THEN val ELSE ParseFail

\* dict.get(key, default): the value of the last member named key
DictGet(pairs, key, default) ==
  LET at == {i \in 1..Len(pairs) : pairs[i].k = key}
  IN  IF at = {} THEN default
      ELSE [t |-> pairs[Max(at)].t, v |-> pairs[Max(at)].v]

-----------------------------------------------------------------------------
(* CodeReviewer._format_review_content *)

\* a variant that keeps the unwrapped text when it does not parse
FormatTryKeepsJson(content, start_match, end_match, json_content, data) ==
  IF start_match # 0 /\ end_match # 0
  THEN IF ~data.ok THEN [exc |-> NoExc, val |-> PyStr(json_content)]
       ELSE [exc |-> NoExc,
             val |-> DictGet(data.pairs, ResponseKey, PyStr(json_content))]
  ELSE [exc |-> NoExc, val |-> PyStr(content)]

\* lines 187-203, on the stripped content: the inner handler turns
\* JSONDecodeError into the content; a value without .get raises
FormatTry(content, start_match, end_match, json_content, data) ==
  IF start_match # 0 /\ end_match # 0
  THEN IF ~data.ok THEN [exc |-> NoExc, val |-> PyStr(content)]
       ELSE IF data.t # "dict"
       THEN [exc |-> OtherError("AttributeError",
                                <<"'", data.t, "' object has no attribute 'get'">>),
             val |-> PyNone]
       ELSE [exc |-> NoExc,
             val |-> DictGet(data.pairs, ResponseKey, PyStr(json_content))]
  ELSE [exc |-> NoExc, val |-> PyStr(content)]

\* line 205-208: except Exception returns the content
FormatHandler(content, body) ==
  IF Raised(body) THEN [exc |-> NoExc, val |-> PyStr(content)] ELSE body

\* lines 189-192
JsonContent(content) ==
  StripFenceSuffix(StripFencePrefix(
    SubSeq(content, StartSearch(content), EndSearch(content))))

FormatStripped(content) ==
  FormatHandler(content,
    FormatTry(content, StartSearch(content), EndSearch(content),
              JsonContent(content), Loads(JsonContent(content))))

\* what a call returns (val) or raises (exc)
FormatReviewContent(rawText) == FormatStripped(Strip(rawText))

-----------------------------------------------------------------------------
(* Config and the persisted file *)

FieldNames == {"model", "temperature", "review_mode", "base_branch"}
ReviewModes == {"NORMAL", "SECURITY", "PERFORMANCE"}

\* a variant that serializes the member's name
ModeValueIsName(m) == m

\* ReviewMode.X.value, and ReviewMode(tag)
ModeValue(m) ==
  IF m = "NORMAL" THEN "normal"
  ELSE IF m = "SECURITY" THEN "security" ELSE "performance"
ModeTags == {ModeValue(m) : m \in ReviewModes}
ModeOf(tag) == CHOOSE m \in ReviewModes : ModeValue(m) = tag

\* an attribute value: ty is its Python type (str, float, enum), val its text
Value(ty, val) == [ty |-> ty, val |-> val]
NoValue == Value("none", "")

\* Config(): shadow holds the method names an instance attribute hides
DefaultConfig ==
  [model |-> Value("str", DEFAULT_MODEL),
   temperature |-> Value("float", DEFAULT_TEMPERATURE),
   review_mode |-> Value("enum", "NORMAL"),
   base_branch |-> Value("str", "main"),
   shadow |-> {}]

\* str(value), as an f-string prints it
StrOf(x) == IF x.ty = "enum" THEN <<"ReviewMode.", x.val>> ELSE <<x.val>>

\* the file: absent, empty (opened for writing, nothing written), or one JSON
\* object; a JSON value's ty is str or float
AbsentFile == [state |-> "absent", model |-> NoValue, temperature |-> NoValue,
               review_mode |-> NoValue, base_branch |-> NoValue]
EmptyFile == [AbsentFile EXCEPT !.state = "empty"]

\* Config.to_dict: a call of the attribute to_dict, then review_mode.value
ToDict(config) ==
  IF "to_dict" \in config.shadow
  THEN [exc |-> OtherError("TypeError", <<"'str' object is not callable">>),
        val |-> AbsentFile]
  ELSE IF config.review_mode.ty # "enum"
  THEN [exc |-> OtherError("AttributeError",
                           <<"'str' object has no attribute 'value'">>),
        val |-> AbsentFile]
  ELSE [exc |-> NoExc,
        val |-> [state |-> "json", model |-> config.model,
                 temperature |-> config.temperature,
                 review_mode |-> Value("str", ModeValue(config.review_mode.val)),
                 base_branch |-> config.base_branch]]

\* Config.from_dict on the object json.load returned
FromDict(data) ==
  IF data.review_mode.ty = "str" /\ data.review_mode.val \in ModeTags
  THEN [exc |-> NoExc,
        val |-> [model |-> data.model, temperature |-> data.temperature,
                 review_mode |-> Value("enum", ModeOf(data.review_mode.val)),
                 base_branch |-> data.base_branch, shadow |-> {}]]
  ELSE [exc |-> OtherError("ValueError", <<"not a valid ReviewMode">>),
        val |-> DefaultConfig]

\* CodeReviewer._load_config: the Config, and whether the warning was printed
LoadConfig(file) ==
  IF file.state = "absent" THEN [config |-> DefaultConfig, warned |-> FALSE]
  ELSE IF file.state = "empty" THEN [config |-> DefaultConfig, warned |-> TRUE]
  ELSE IF Raised(FromDict(file)) THEN [config |-> DefaultConfig, warned |-> TRUE]
  ELSE [config |-> FromDict(file).val, warned |-> FALSE]

\* CodeReviewer._save_config: open(config_path, 'w') empties the file before
\* to_dict is evaluated
SaveConfig(config) ==
  LET d == ToDict(config)
  IN  IF Raised(d)
      THEN [exc |-> ClickException("ConfigSaveError",
                                   <<"Error saving config: ">> \o d.exc.msg),
            file |-> EmptyFile]
      ELSE [exc |-> NoExc, file |-> d.val]

\* a call not made yet, and a call that returned or raised r
Uncalled == [called |-> FALSE, r |-> [exc |-> NoExc, val |-> NoValue]]
Called(r) == [called |-> TRUE, r |-> r]

\* no Config is serialized outside the commands
NoRoundTrip ==
  /\ conf = DefaultConfig
  /\ config_dict = Uncalled
  /\ new_config = Uncalled

-----------------------------------------------------------------------------
(* The completion backend: what litellm.completion does when it is called *)

LlmFailures ==
  { <<"AuthenticationError: The api_key client option must be set">>,
    <<"BadRequestError: LLM Provider NOT provided">>,
    <<"APIConnectionError: Connection error.">> }

FenceOpen == Fence \o JsonTag \o <<NL>>
FenceClose == <<NL>> \o Fence
Quoted(w) == <<QUOTE>> \o w \o <<QUOTE>>
ResponseObject(valueText) ==
  <<"{">> \o Quoted(ResponseKey) \o <<":", " ">> \o valueText \o <<"}">>

LlmContents ==
  { <<" ", "x", NL>>,
    FenceOpen \o ResponseObject(Quoted(<<" ", "x", " ">>)) \o FenceClose,
    FenceOpen \o ResponseObject(<<"5">>) \o FenceClose,
    FenceOpen \o <<"{">> \o Quoted(<<"a">>) \o <<":", "1", "}">> \o FenceClose }

LlmOutcomes ==
  {[ok |-> FALSE, content |-> <<>>, msg |-> m] : m \in LlmFailures}
  \cup {[ok |-> TRUE, content |-> c, msg |-> <<>>] : c \in LlmContents}

NoLlm == [ok |-> FALSE, content |-> <<>>, msg |-> <<"not called">>]

-----------------------------------------------------------------------------
(* CodeReviewer.review_branch *)

\* line 213-217: Config always has the attribute base_branch, so the
\* AttributeError branch to get_default_base_branch is never taken
ResolveBase(hs, config, base_arg) ==
  IF base_arg = NONE THEN config.base_branch.val ELSE base_arg

\* whether review_branch gets as far as calling completion
ReachesCompletion(hs, tr, chg, config, branch_name, base_arg, files) ==
  /\ ~Raised(GetChangedFiles(hs, chg, branch_name,
                             ResolveBase(hs, config, base_arg)))
  /\ ~Raised(GetBranchDiff(hs, tr, chg, branch_name,
                           ResolveBase(hs, config, base_arg), files))

\* what review_branch has done when it returns or raises
ReviewOutcome(base_branch, nameOnly, diffs, completions, exc, fmt, ret) ==
  [exc |-> exc, ret |-> ret, fmt |-> fmt, resolved |-> base_branch,
   nameOnly |-> nameOnly, diffs |-> diffs, completions |-> completions]

\* lines 279-282: formatted_content.strip() needs a str
ReviewReturn(base_branch, formatted_content) ==
  IF formatted_content.t # "str"
  THEN ReviewOutcome(base_branch, 1, 1, 1,
         OtherError("AttributeError",
                    <<"'", formatted_content.t, "' object has no attribute 'strip'">>),
         formatted_content, PyNone)
  ELSE ReviewOutcome(base_branch, 1, 1, 1, NoExc, formatted_content,
                     PyStr(Strip(formatted_content.v)))

\* lines 220-229 and 264-273, given what the two GitHandler calls did
ReviewSteps(base_branch, changed_files, diff, llm) ==
  IF Raised(changed_files)
  THEN ReviewOutcome(base_branch, changed_files.diffs, 0, 0, changed_files.exc,
                     PyNone, PyNone)
  ELSE IF Raised(diff)
  THEN ReviewOutcome(base_branch, 1, diff.diffs, 0, diff.exc, PyNone, PyNone)
  ELSE IF ~llm.ok
  THEN ReviewOutcome(base_branch, 1, 1, 1, OtherError("CompletionError", llm.msg),
                     PyNone, PyNone)
  ELSE ReviewReturn(base_branch, FormatReviewContent(llm.content).val)

\* the try body of review_branch (lines 213-282)
ReviewBody(hs, tr, chg, config, branch_name, base_arg, files, llm) ==
  ReviewSteps(ResolveBase(hs, config, base_arg),
              GetChangedFiles(hs, chg, branch_name,
                              ResolveBase(hs, config, base_arg)),
              GetBranchDiff(hs, tr, chg, branch_name,
                            ResolveBase(hs, config, base_arg), files),
              llm)

\* a variant with the second clause only: every exception is wrapped
ReviewHandlerWrapsAll(e) ==
  IF e.cls = "none" THEN e
  ELSE ClickException("ReviewExecutionError", <<"Error during review: ">> \o e.msg)

\* the except clauses of review_branch (lines 284-287)
ReviewHandler(e) ==
  IF e.cls \in {"none", "ClickException"} THEN e
  ELSE ClickException("ReviewExecutionError", <<"Error during review: ">> \o e.msg)

ReviewBranch(hs, tr, chg, config, branch_name, base_arg, files, llm) ==
  Handled(ReviewBody(hs, tr, chg, config, branch_name, base_arg, files, llm),
          ReviewHandler)

-----------------------------------------------------------------------------
(* One invocation: its arguments, what it printed, and what it called *)

NoCmd ==
  [name |-> "none", target |-> NONE, base |-> NONE, files |-> <<>>,
   key |-> "", value |-> "",
   stdout |-> <<>>, stderr |-> <<>>, exit |-> 0,
   exc |-> NoExc, ret |-> PyNone, fmt |-> PyNone, resolved |-> NONE,
   nameOnly |-> 0, diffs |-> 0, completions |-> 0, llm |-> NoLlm]

\* click.echo(f"Error: {str(e)}", err=True)
ErrorLine(e) == <<"Error: ">> \o e.msg

\* what `review` leaves behind, given what review_branch did: the text on
\* success, the Error: line on a ClickException, and a return either way
ReviewRecord(target, base, files, llm, notice, r) ==
  [NoCmd EXCEPT
     !.name = "review", !.target = target, !.base = base, !.files = files,
     !.llm = llm, !.exc = r.exc, !.ret = r.ret, !.fmt = r.fmt,
     !.resolved = r.resolved, !.nameOnly = r.nameOnly, !.diffs = r.diffs,
     !.completions = r.completions,
     !.stdout = IF Raised(r) THEN notice ELSE notice \o <<NL>> \o r.ret.v \o <<NL>>,
     !.stderr = IF Raised(r) THEN ErrorLine(r.exc) \o <<NL>> ELSE <<>>,
     !.exit = 0]

BranchOrCurrent(target) == IF target = NONE THEN current ELSE target

Notice(target) ==
  IF target = NONE
  THEN <<"No branch specified, reviewing current branch: ", current, NL>>
  ELSE <<>>

\* the command `review` (lines 325-352). --model and --temperature only
\* choose arguments of the completion call; --debug only prints
ReviewCmd ==
  /\ cmd = NoCmd
  /\ \E target \in UserNames \cup {NONE}, base \in UserNames \cup {NONE},
        files \in FileLists :
       \E llm \in IF ReachesCompletion(heads, tree, changed,
                                       LoadConfig(cfgFile).config,
                                       BranchOrCurrent(target), base, files)
                  THEN LlmOutcomes ELSE {NoLlm} :
         cmd' = ReviewRecord(target, base, files, llm, Notice(target),
                             ReviewBranch(heads, tree, changed,
                                          LoadConfig(cfgFile).config,
                                          BranchOrCurrent(target), base,
                                          files, llm))
  /\ UNCHANGED <<inMemory, heads, current, tree, changed, cfgFile, raw, shown>>

\* what a direct call leaves behind
DiffRecord(target, base, files, r) ==
  [NoCmd EXCEPT
     !.name = "get_branch_diff", !.target = target, !.base = base,
     !.files = files, !.exc = r.exc, !.diffs = r.diffs,
     !.ret = IF Raised(r) THEN PyNone ELSE PyStr(r.val)]

\* a direct call of GitHandler.get_branch_diff, base_branch None included
GetBranchDiffCall ==
  /\ cmd = NoCmd
  /\ \E target \in UserNames, base \in UserNames \cup {NONE}, files \in FileLists :
       cmd' = DiffRecord(target, base, files,
                         GetBranchDiff(heads, tree, changed, target, base, files))
  /\ UNCHANGED <<inMemory, heads, current, tree, changed, cfgFile, raw, shown>>

\* a file `config set base_branch b` leaves behind
FileWithBase(b) ==
  ToDict([DefaultConfig EXCEPT !.base_branch = Value("str", b)]).val

InitReview ==
  /\ heads \in SUBSET BranchNames \ {{}}
  /\ current \in heads
  /\ tree \in SUBSET Paths
  /\ changed \in SUBSET Paths
  /\ cfgFile \in {AbsentFile} \cup {FileWithBase(b) : b \in BranchNames \ {"main"}}
  /\ cmd = NoCmd
  /\ raw = <<>>
  /\ shown = [exc |-> NoExc, val |-> PyNone]
  /\ NoRoundTrip

\* No invocation writes heads, current, tree, changed or (in review) the
\* file, so a second invocation would start where the first did: a behaviour
\* is one invocation, from every state of the repository
NextReview == ReviewCmd \/ GetBranchDiffCall

SpecReview == InitReview /\ [][NextReview]_vars

-----------------------------------------------------------------------------
(* The extractor on its own: every raw text of the input set, formatted once *)

MaxValueLen == 2       \* longest response value tried, in characters

FreeChars == {TICK, "{", "}", " ", NL, "x"}
ValueChars == {"x", " ", QUOTE, BSL, NL, "}", TICK}

\* the JSON string literal of a text, as json.dumps writes it
RECURSIVE JsonEscape(_)
JsonEscape(w) ==
  IF w = <<>> THEN <<>>
  ELSE (IF w[1] = NL THEN <<BSL, "n">>
        ELSE IF w[1] \in {QUOTE, BSL} THEN <<BSL, w[1]>>
        ELSE <<w[1]>>) \o JsonEscape(Tail(w))

ResponseValues == SeqsUpTo(ValueChars, MaxValueLen)

Member(k, valueText) == Quoted(k) \o <<":">> \o valueText

Bodies ==
  {ResponseObject(Quoted(JsonEscape(w))) : w \in ResponseValues}
  \cup { ResponseObject(<<"5">>),
         ResponseObject(<<"{", "}">>),
         <<"{">> \o Member(<<"a">>, <<"1">>) \o <<"}">>,
         <<"{", "}">>,
         <<"{">> \o Member(<<"a">>, <<"1">>) \o <<",">>
                 \o Member(ResponseKey, Quoted(<<"x">>)) \o <<"}">>,
         <<"{">> \o Member(ResponseKey, Quoted(<<"a">>)) \o <<",">>
                 \o Member(ResponseKey, Quoted(<<"x">>)) \o <<"}">>,
         <<"{">> \o Member(ResponseKey, Quoted(<<"x">>)),
         <<"{">> \o Quoted(ResponseKey) \o <<":">>,
         <<"{">> \o Member(ResponseKey, Quoted(<<"x">>)) \o <<"}", "}">>,
         <<"{">> \o Member(ResponseKey, <<"x">>) \o <<"}">> }

Prefixes == {<<>>, <<" ", NL>>, <<"x", NL>>, <<"}">> \o Fence \o <<NL>>}
Opens == {FenceOpen, Fence, Fence \o <<NL>>, <<" ">> \o Fence \o JsonTag \o <<" ">>}
Closes == {FenceClose, Fence, <<NL>> \o <<TICK, TICK>>}
Suffixes == {<<>>, <<NL>>, <<NL, "x">>}

FencedTexts ==
  {p \o o \o b \o c \o x :
     p \in Prefixes, o \in Opens, b \in Bodies, c \in Closes, x \in Suffixes}

RawInputs == SeqsUpTo(FreeChars, MaxRawLen) \cup FencedTexts

Pending == [exc |-> NoExc, val |-> PyNone]

Format ==
  /\ shown = Pending
  /\ shown' = FormatReviewContent(raw)
  /\ UNCHANGED <<inMemory, heads, current, tree, changed, cfgFile, cmd, raw>>

InitExtract ==
  /\ raw \in RawInputs
  /\ shown = Pending
  /\ heads = {"main"}
  /\ current = "main"
  /\ tree = {}
  /\ changed = {}
  /\ cfgFile = AbsentFile
  /\ cmd = NoCmd
  /\ NoRoundTrip

NextExtract == Format

SpecExtract == InitExtract /\ [][NextExtract]_vars

-----------------------------------------------------------------------------
(* The commands init, config set and config get *)

MethodNames == {"to_dict", "from_dict"}

\* hasattr(reviewer.config, key), over the keys tried
HasAttr(key) == key \in FieldNames \cup MethodNames \cup {"__class__"}

\* setattr(reviewer.config, key, value): value is the str click passed;
\* __class__ takes a class only
SetAttr(config, key, value) ==
  IF key = "__class__"
  THEN [exc |-> OtherError("TypeError",
                  <<"__class__ must be set to a class, not 'str' object">>),
        val |-> config]
  ELSE IF key \in MethodNames
  THEN [exc |-> NoExc, val |-> [config EXCEPT !.shadow = @ \cup {key}]]
  ELSE [exc |-> NoExc, val |-> [config EXCEPT ![key] = Value("str", value)]]

\* str(getattr(reviewer.config, key))
GetAttrText(config, key) ==
  IF key = "__class__" THEN <<"<class 'main.Config'>">>
  ELSE IF key \in MethodNames THEN <<"<bound method Config.", key, ">">>
  ELSE StrOf(config[key])

\* console.print of _load_config's warning
LoadWarning(file) ==
  IF LoadConfig(file).warned
  THEN <<"Warning: Could not load config file", NL>> ELSE <<>>

\* an exception no except clause of the command takes: click lets it out,
\* Python prints the traceback and the process exits 1
Crash(c, e) ==
  [c EXCEPT !.exc = e, !.stderr = <<"Traceback: ">> \o e.msg \o <<NL>>, !.exit = 1]

\* (the check mark and the sparkles that open the two success lines are left
\* out of the texts below)

\* the end of a command whose body raised e (NoExc: nothing) after printing
\* out: a ClickException is echoed as an Error: line and the command returns
Finish(c, out, okLine, e) ==
  IF e.cls = "none" THEN [c EXCEPT !.stdout = out \o okLine]
  ELSE IF e.cls = "ClickException"
  THEN [c EXCEPT !.exc = e, !.stdout = out, !.stderr = ErrorLine(e) \o <<NL>>]
  ELSE Crash([c EXCEPT !.stdout = out], e)

UnknownKey(c, out, key) ==
  [c EXCEPT !.stdout = out,
            !.stderr = <<"Error: Unknown configuration key: ", key, NL>>]

\* the command `init` (lines 308-315)
InitCmd ==
  /\ cmd' = Finish([NoCmd EXCEPT !.name = "init"], LoadWarning(cfgFile),
                   <<"Codify initialized successfully!", NL>>,
                   SaveConfig(LoadConfig(cfgFile).config).exc)
  /\ cfgFile' = SaveConfig(LoadConfig(cfgFile).config).file
  /\ UNCHANGED <<inMemory, heads, current, tree, changed, raw, shown>>

\* lines 375-378, given what setattr did
SetAndSave(c, out, key, value, set) ==
  IF Raised(set) THEN Crash([c EXCEPT !.stdout = out], set.exc)
  ELSE Finish(c, out, <<"Set ", key, "=", value, NL>>, SaveConfig(set.val).exc)

FileAfterSet(file, set) == IF Raised(set) THEN file ELSE SaveConfig(set.val).file

ConfigKeys == FieldNames \cup {"foo", "to_dict", "from_dict", "__class__"}
ConfigValues == {"test-model", "0.5", "security", "develop"}

\* the command `config set` (lines 371-382)
ConfigSet ==
  \E key \in ConfigKeys, value \in ConfigValues :
    /\ cmd' = IF HasAttr(key)
              THEN SetAndSave([NoCmd EXCEPT !.name = "config set", !.key = key,
                                            !.value = value],
                              LoadWarning(cfgFile), key, value,
                              SetAttr(LoadConfig(cfgFile).config, key, value))
              ELSE UnknownKey([NoCmd EXCEPT !.name = "config set", !.key = key,
                                            !.value = value],
                              LoadWarning(cfgFile), key)
    /\ cfgFile' = IF HasAttr(key)
                  THEN FileAfterSet(cfgFile,
                                    SetAttr(LoadConfig(cfgFile).config, key, value))
                  ELSE cfgFile
    /\ UNCHANGED <<inMemory, heads, current, tree, changed, raw, shown>>

\* the command `config get` (lines 386-396)
ConfigGet ==
  \E key \in ConfigKeys :
    /\ cmd' = IF HasAttr(key)
              THEN Finish([NoCmd EXCEPT !.name = "config get", !.key = key],
                          LoadWarning(cfgFile),
                          <<key, "=">> \o GetAttrText(LoadConfig(cfgFile).config, key)
                            \o <<NL>>,
                          NoExc)
              ELSE UnknownKey([NoCmd EXCEPT !.name = "config get", !.key = key],
                              LoadWarning(cfgFile), key)
    /\ UNCHANGED <<inMemory, heads, current, tree, changed, cfgFile, raw, shown>>

InitConfig ==
  /\ cfgFile = AbsentFile
  /\ cmd = NoCmd
  /\ heads = {"main"}
  /\ current = "main"
  /\ tree = {}
  /\ changed = {}
  /\ raw = <<>>
  /\ shown = Pending
  /\ NoRoundTrip

NextConfig == InitCmd \/ ConfigSet \/ ConfigGet

SpecConfig == InitConfig /\ [][NextConfig]_vars

-----------------------------------------------------------------------------
(* Config.to_dict and Config.from_dict on their own: every valid Config of *)
(* the input set, serialized once and read back once                       *)

ModelNames == {DEFAULT_MODEL, "custom-model", "test-model"}
Temperatures == {DEFAULT_TEMPERATURE, "0.5", "1.0"}
BaseNames == BranchNames \cup {"develop"}

\* Config(model=..., temperature=..., review_mode=..., base_branch=...)
ValidConfigs ==
  {[model |-> Value("str", m), temperature |-> Value("float", t),
    review_mode |-> Value("enum", rm), base_branch |-> Value("str", b),
    shadow |-> {}] :
     m \in ModelNames, t \in Temperatures, rm \in ReviewModes, b \in BaseNames}

\* config_dict = config.to_dict(), config being conf
ToDictCall ==
  /\ ~config_dict.called
  /\ config_dict' = Called(ToDict(conf))
  /\ UNCHANGED <<heads, current, tree, changed, cfgFile, cmd, raw, shown,
                 conf, new_config>>

\* new_config = Config.from_dict(config_dict)
FromDictCall ==
  /\ config_dict.called
  /\ ~Raised(config_dict.r)
  /\ ~new_config.called
  /\ new_config' = Called(FromDict(config_dict.r.val))
  /\ UNCHANGED <<heads, current, tree, changed, cfgFile, cmd, raw, shown,
                 conf, config_dict>>

InitRoundTrip ==
  /\ conf \in ValidConfigs
  /\ config_dict = Uncalled
  /\ new_config = Uncalled
  /\ heads = {"main"}
  /\ current = "main"
  /\ tree = {}
  /\ changed = {}
  /\ cfgFile = AbsentFile
  /\ cmd = NoCmd
  /\ raw = <<>>
  /\ shown = Pending

NextRoundTrip == ToDictCall \/ FromDictCall

SpecRoundTrip == InitRoundTrip /\ [][NextRoundTrip]_vars

-----------------------------------------------------------------------------
(* Properties of a review (SpecReview) *)

Reviewed == IF cmd.target = NONE THEN current ELSE cmd.target
ConfiguredBase == LoadConfig(cfgFile).config.base_branch.val

\* the f-string of lines 78-79
SelfComparisonText(b) ==
  <<"Cannot compare ", b, " with itself. ",
    "Please specify a different branch to review.">>

EndsWith(msg, tail) ==
  /\ Len(msg) >= Len(tail)
  /\ SubSeq(msg, Len(msg) - Len(tail) + 1, Len(msg)) = tail

FailsAsSelfComparison ==
  /\ cmd.exc.cls = "ClickException"
  /\ cmd.exc.kind = "SelfComparison"
  /\ EndsWith(cmd.exc.msg, SelfComparisonText(Reviewed))
  /\ cmd.completions = 0
  /\ cmd.ret = PyNone

\* C1: a review of an existing local branch A whose base resolves to A fails
\* with the self-comparison error and never calls completion, whether the
\* base was given (review, get_branch_diff), taken from the configured base
\* branch (review) or detected from main/master (get_branch_diff)
SelfReviewFails ==
  /\ (cmd.name = "review" /\ Reviewed \in heads /\ cmd.base = Reviewed)
       => FailsAsSelfComparison
  /\ (cmd.name = "review" /\ Reviewed \in heads /\ cmd.base = NONE
        /\ ConfiguredBase = Reviewed)
       => FailsAsSelfComparison
  /\ (cmd.name = "get_branch_diff" /\ Reviewed \in heads /\ cmd.base = Reviewed)
       => FailsAsSelfComparison
  /\ (cmd.name = "get_branch_diff" /\ Reviewed \in heads /\ cmd.base = NONE
        /\ FirstHead(heads, DEFAULT_BASE_BRANCHES) = Reviewed)
       => FailsAsSelfComparison

\* a review of feat with no --base, in a repository configured with
\* base_branch feat: the name-only diff ran, then the comparison failed
SelfReviewWitness ==
  /\ cmd.name = "review"
  /\ cmd.target = "feat"
  /\ cmd.base = NONE
  /\ "feat" \in heads
  /\ ConfiguredBase = "feat"
  /\ cmd.exc.kind = "SelfComparison"
  /\ cmd.nameOnly = 1
  /\ cmd.completions = 0

\* C2: a review whose target and resolved base differ, one of them no local
\* branch, fails with BranchNotFound (and no other kind), the message naming
\* the missing branch and its side
MissingBranchIsBranchNotFound ==
  (cmd.name = "review" /\ Reviewed # cmd.resolved
     /\ (Reviewed \notin heads \/ cmd.resolved \notin heads))
  => /\ cmd.exc.kind = "BranchNotFound"
     /\ \/ Reviewed \notin heads
           /\ EndsWith(cmd.exc.msg, <<"Branch '", Reviewed, "' not found">>)
        \/ Reviewed \in heads
           /\ EndsWith(cmd.exc.msg, <<"Base branch '", cmd.resolved, "' not found">>)

\* C3: a review with a file filter naming a path absent from the tree, target
\* and base distinct local branches, fails with FileNotFound naming the first
\* missing path, having computed no diff of any kind and called no completion
MissingFileStopsBeforeAnyDiff ==
  (cmd.name = "review" /\ cmd.files # <<>> /\ ~(Range(cmd.files) \subseteq tree)
     /\ Reviewed # cmd.resolved /\ Reviewed \in heads /\ cmd.resolved \in heads)
  => /\ cmd.exc.kind = "FileNotFound"
     /\ EndsWith(cmd.exc.msg, <<"File not found in repository: ",
                                FirstMissing(cmd.files, tree)>>)
     /\ cmd.nameOnly = 0
     /\ cmd.diffs = 0
     /\ cmd.completions = 0

\* the paths of the diff that lines 96-101 ask git for
ScopedChanges == IF cmd.files = <<>> THEN changed ELSE changed \cap Range(cmd.files)

ListsRequestedFiles ==
  EndsWith(cmd.exc.msg, <<" for the specified files: ">> \o Join(", ", cmd.files))

\* C4: whenever the diff of base...target that get_branch_diff computed (whole
\* tree, or scoped to the files) is empty, the call fails with NoChangesFound,
\* completion is not called, nothing is returned, and the message lists the
\* requested files exactly when a file filter was given
EmptyDiffIsAnError ==
  (cmd.name \in {"review", "get_branch_diff"} /\ cmd.diffs = 1
     /\ ScopedChanges = {})
  => /\ cmd.exc.cls = "ClickException"
     /\ cmd.exc.kind = "NoChangesFound"
     /\ cmd.completions = 0
     /\ cmd.ret = PyNone
     /\ cmd.stdout = (IF cmd.name = "review" THEN Notice(cmd.target) ELSE <<>>)
     /\ (cmd.files # <<>>) <=> ListsRequestedFiles

\* a review of files that exist and did not change, on a branch that changed
\* another file
EmptyDiffWitness ==
  /\ cmd.name = "review"
  /\ cmd.files # <<>>
  /\ cmd.diffs = 1
  /\ changed # {}
  /\ ScopedChanges = {}
  /\ cmd.exc.kind = "NoChangesFound"
  /\ ListsRequestedFiles

\* C7: every failure of diff resolution or of the completion call during
\* `review` is printed once as an Error: message, ends the command with a
\* non-zero exit status, and nothing is retried
ReviewFailureExitsNonZero ==
  (cmd.name = "review" /\ Raised(cmd))
  => /\ cmd.stderr = <<"Error: ">> \o cmd.exc.msg \o <<NL>>
     /\ cmd.exit # 0
     /\ cmd.nameOnly <= 1 /\ cmd.diffs <= 1 /\ cmd.completions <= 1

\* what the two GitHandler calls of this review raised
DiffResolutionErrors ==
  { GetChangedFiles(heads, changed, Reviewed, cmd.resolved).exc,
    GetBranchDiff(heads, tree, changed, Reviewed, cmd.resolved, cmd.files).exc }
  \ {NoExc}

\* C8: in review_branch a failure of the completion call surfaces as one
\* ReviewExecutionError, "Error during review: " and the underlying message;
\* an error raised by get_changed_files or get_branch_diff passes through
\* with its message unchanged, without that wrapper
CompletionWrappedDiffErrorsNot ==
  cmd.name = "review"
  => /\ (cmd.completions = 1 /\ ~cmd.llm.ok)
          => /\ cmd.exc.cls = "ClickException"
             /\ cmd.exc.kind = "ReviewExecutionError"
             /\ cmd.exc.msg = <<"Error during review: ">> \o cmd.llm.msg
     /\ (DiffResolutionErrors # {})
          => /\ cmd.exc \in DiffResolutionErrors
             /\ cmd.exc.msg[1] # "Error during review: "
             /\ cmd.completions = 0

\* completion ran and failed for want of credentials
CompletionWrappedWitness ==
  /\ cmd.name = "review"
  /\ cmd.completions = 1
  /\ cmd.llm.msg = <<"AuthenticationError: The api_key client option must be set">>
  /\ cmd.exc.kind = "ReviewExecutionError"
  /\ cmd.stderr[2] = "Error during review: "

\* C14: a review requested without a base uses the configured base branch
\* when the file configures one; with no configured base it uses the first
\* of main, master among the local branches (master when there is no main),
\* and fails with NoBaseBranchFound when neither exists
BaseIsConfiguredElseDetected ==
  (cmd.name = "review" /\ cmd.base = NONE)
  => /\ cfgFile.state = "json" => cmd.resolved = cfgFile.base_branch.val
     /\ cfgFile.state = "absent"
          => IF FirstHead(heads, DEFAULT_BASE_BRANCHES) # NONE
             THEN cmd.resolved = FirstHead(heads, DEFAULT_BASE_BRANCHES)
             ELSE cmd.exc.kind = "NoBaseBranchFound"

\* a message is the sequence of the literals and names it was formatted
\* from: it says a text when the text is one of them
Says(msg, text) == \E i \in 1..Len(msg) : msg[i] = text

\* C12: the self-comparison error states that the branch cannot be reviewed
\* against itself and carries the guidance: a "To review changes:" section,
\* a "From main branch:" entry with the codify review command, an "After
\* switching branch:" entry with a git checkout instruction and, when local
\* branches other than the base exist, the name of one of them
SelfComparisonGivesGuidance ==
  (cmd.name \in {"review", "get_branch_diff"} /\ cmd.exc.kind = "SelfComparison")
  => /\ \/ Says(cmd.exc.msg, "Cannot review the main branch against itself")
        \/ Says(cmd.exc.msg, "Cannot compare ") /\ Says(cmd.exc.msg, " with itself. ")
     /\ Says(cmd.exc.msg, "To review changes:")
     /\ Says(cmd.exc.msg, "From main branch:")
     /\ Says(cmd.exc.msg, "codify review")
     /\ Says(cmd.exc.msg, "After switching branch:")
     /\ Says(cmd.exc.msg, "git checkout")
     /\ (heads \ {Reviewed} # {})
          => \E b \in heads \ {Reviewed} : Says(cmd.exc.msg, b)

-----------------------------------------------------------------------------
(* Properties of the extractor (SpecExtract) *)

Content == Strip(raw)
HasMarkerPair == StartSearch(Content) # 0 /\ EndSearch(Content) # 0
Parsed == Loads(JsonContent(Content))

AllWs(w) == \A i \in 1..Len(w) : w[i] \in WS

\* t is w without its leading and trailing whitespace
IsTrimOf(t, w) ==
  /\ t # <<>> => (t[1] \notin WS /\ t[Len(t)] \notin WS)
  /\ \E i \in 0..Len(w) :
       /\ i + Len(t) <= Len(w)
       /\ SubSeq(w, i + 1, i + Len(t)) = t
       /\ AllWs(SubSeq(w, 1, i))
       /\ AllWs(SubSeq(w, i + Len(t) + 1, Len(w)))

\* C5: for every raw text the extractor returns and does not raise; without
\* an opening/closing marker pair, or when the fenced content does not parse
\* as JSON, it returns exactly raw without leading and trailing whitespace
ExtractorFallsBackToTrimmedRaw ==
  shown # Pending
  => /\ ~Raised(shown)
     /\ shown.val.t # "none"
     /\ (~HasMarkerPair \/ ~Parsed.ok)
          => (shown.val.t = "str" /\ IsTrimOf(shown.val.v, raw))

TruncatedObject == <<"{">> \o Member(ResponseKey, Quoted(<<"x">>))

\* a fenced object cut before its closing brace, followed by a newline: the
\* result is the whole text less that newline
TruncatedFallbackWitness ==
  /\ raw = FenceOpen \o TruncatedObject \o FenceClose \o <<NL>>
  /\ shown.val = PyStr(FenceOpen \o TruncatedObject \o FenceClose)

ResponseMembers ==
  {i \in 1..Len(Parsed.pairs) : Parsed.pairs[i].k = ResponseKey}

\* C6: when the fenced content parses as a JSON object the result is a text:
\* the value of its field response when it has one (so the fenced object
\* {"response": R} yields exactly R), else the unwrapped JSON text
ParsedObjectYieldsText ==
  (shown # Pending /\ HasMarkerPair /\ Parsed.ok /\ Parsed.t = "dict")
  => /\ shown.val.t = "str"
     /\ (ResponseMembers # {})
          => shown.val.v = Parsed.pairs[Max(ResponseMembers)].v
     /\ (ResponseMembers = {}) => shown.val.v = JsonContent(Content)
     /\ \A w \in ResponseValues :
          raw = FenceOpen \o ResponseObject(Quoted(JsonEscape(w))) \o FenceClose
            => shown.val.v = w

\* the end of the first closing match that starts at or after from, 0 for
\* none
FirstClosingAfter(s, from) ==
  LET at == {i \in from..Len(s) : i >= 1 /\ EndMatchAt(s, i) # 0}
  IN  IF at = {} THEN 0 ELSE EndMatchAt(s, Min(at))

Unwrapped(content, st, en) ==
  StripFenceSuffix(StripFencePrefix(SubSeq(content, st, en)))

\* the result when the block runs from position st to position en
ExtractedBetween(content, st, en) ==
  FormatHandler(content,
    FormatTry(content, st, en, Unwrapped(content, st, en),
              Loads(Unwrapped(content, st, en))))

ClosingShaped == <<"}">> \o Fence \o <<NL>>

\* C15: the extractor pairs the first opening match with the first closing
\* match that appears after it, so its result is the one for that block; a
\* closing-shaped sequence earlier in the text is not chosen, and a
\* well-formed block {"response": R} preceded by one still yields R
ClosingIsFirstAfterOpening ==
  shown # Pending
  => /\ shown = ExtractedBetween(Content, StartSearch(Content),
                                 FirstClosingAfter(Content, StartSearch(Content)))
     /\ \A w \in ResponseValues :
          raw = ClosingShaped \o FenceOpen
                  \o ResponseObject(Quoted(JsonEscape(w))) \o FenceClose
            => shown.val = PyStr(w)

-----------------------------------------------------------------------------
(* Properties of the config commands (SpecConfig) *)

\* the values a key is meant to take, among ConfigValues
ValidValue(key, value) ==
  IF key = "temperature" THEN value = "0.5"
  ELSE IF key = "review_mode" THEN value \in ModeTags
  ELSE TRUE

\* C9: for each of the four keys and every valid value v, config set key v
\* succeeds and a config get key that follows it reports v
SetThenGetReportsValue ==
  [][(/\ cmd.name = "config set"
      /\ cmd.key \in FieldNames
      /\ ValidValue(cmd.key, cmd.value)
      /\ cmd'.name = "config get"
      /\ cmd'.key = cmd.key)
     => (/\ ~Raised(cmd)
         /\ cmd.stderr = <<>>
         /\ cmd'.stdout = <<cmd.key, "=", cmd.value, NL>>)]_vars

\* C10: config set with a key that is none of the four field names reports
\* the key as unrecognized and leaves the file as it was (and does not
\* create it)
UnknownKeyLeavesFile ==
  [][(cmd'.name = "config set" /\ cmd'.key \notin FieldNames)
     => (/\ cmd'.stderr = <<"Error: Unknown configuration key: ", cmd'.key, NL>>
         /\ cfgFile' = cfgFile)]_vars

\* C13: after any sequence of init and config set commands, failed ones
\* included, the file .codify.config (once it exists) holds one JSON object
\* with the four fields model, temperature, review_mode and base_branch,
\* review_mode being one of the lowercase tags
ConfigFileIsFlatObject ==
  cfgFile.state # "absent"
  => /\ cfgFile.state = "json"
     /\ \A f \in FieldNames : cfgFile[f] # NoValue
     /\ cfgFile.review_mode.ty = "str"
     /\ cfgFile.review_mode.val \in {"normal", "security", "performance"}

-----------------------------------------------------------------------------
(* Properties of the Config round trip (SpecRoundTrip) *)

\* the tag each member is written as
LowercaseTag ==
  [NORMAL |-> "normal", SECURITY |-> "security", PERFORMANCE |-> "performance"]

\* C11: for every valid Config c, c.to_dict() holds model, temperature and
\* base_branch as they are and review_mode as its lowercase string tag, and
\* Config.from_dict of that dict returns a Config equal to c in all four
\* fields
RoundTripRestoresConfig ==
  /\ config_dict.called
       => /\ ~Raised(config_dict.r)
          /\ config_dict.r.val.review_mode
               = Value("str", LowercaseTag[conf.review_mode.val])
          /\ \A f \in FieldNames \ {"review_mode"} :
               config_dict.r.val[f] = conf[f]
  /\ new_config.called
       => /\ ~Raised(new_config.r)
          /\ \A f \in FieldNames : new_config.r.val[f] = conf[f]

\* the Config of test_config_serialization, read back
RoundTripWitness ==
  /\ config_dict.called
  /\ new_config.called
  /\ conf.model.val = "custom-model"
  /\ conf.temperature.val = "0.5"
  /\ conf.review_mode.val = "SECURITY"
  /\ conf.base_branch.val = "develop"
  /\ config_dict.r.val.review_mode.val = "security"
  /\ new_config.r.val.review_mode = Value("enum", "SECURITY")

=============================================================================
